---------------------------- MODULE Spec2Model ----------------------------
(***************************************************************************)
(* A model of the dsp repository: the TDOA experiment script               *)
(* (exp/exp00_tdoa.py) and the emitter classes (sim/emitters.py).          *)
(*                                                                         *)
(* The script computes with numpy float64 values.  TLC's integers are 32   *)
(* bits wide, so a float64 is modelled here bit-exactly as a sign, a 53    *)
(* bit significand held in a multi-limb natural, and a binary exponent;    *)
(* every operation rounds to nearest, ties to even, as IEEE 754 does.      *)
(* The values the model reaches stay far inside the normal range, so       *)
(* subnormals, infinities and NaN are not represented.                     *)
(***************************************************************************)
EXTENDS Integers, Sequences, FiniteSets, TLC

(***************************************************************************)
(* Multi-limb naturals: little-endian sequences of limbs in 0..Base-1,     *)
(* without leading (most significant) zero limbs; << >> is zero.           *)
(***************************************************************************)
Base == 2 ^ 15

RECURSIVE BNorm(_)
BNorm(a) ==
    IF a = << >> THEN << >>
    ELSE IF a[Len(a)] = 0 THEN BNorm(SubSeq(a, 1, Len(a) - 1))
    ELSE a

RECURSIVE BFromInt(_)
BFromInt(n) ==
    IF n = 0 THEN << >> ELSE << n % Base >> \o BFromInt(n \div Base)

RECURSIVE BToInt(_)
BToInt(a) ==
    IF a = << >> THEN 0 ELSE a[1] + Base * BToInt(Tail(a))

RECURSIVE BAddC(_, _, _)
BAddC(a, b, carry) ==
    IF a = << >> /\ b = << >>
    THEN (IF carry = 0 THEN << >> ELSE << carry >>)
    ELSE LET la == IF a = << >> THEN 0 ELSE a[1]
             lb == IF b = << >> THEN 0 ELSE b[1]
             s == la + lb + carry
         IN  << s % Base >>
               \o BAddC(IF a = << >> THEN a ELSE Tail(a),
                        IF b = << >> THEN b ELSE Tail(b), s \div Base)

BAdd(a, b) == BAddC(a, b, 0)

\* a - b for a >= b
RECURSIVE BSubC(_, _, _)
BSubC(a, b, borrow) ==
    IF a = << >> THEN << >>
    ELSE LET lb == IF b = << >> THEN 0 ELSE b[1]
             d == a[1] - lb - borrow
         IN  << d % Base >>
               \o BSubC(Tail(a), IF b = << >> THEN b ELSE Tail(b),
                        IF d < 0 THEN 1 ELSE 0)

BSub(a, b) == BNorm(BSubC(a, b, 0))

\* -1, 0, 1 as a < b, a = b, a > b (both normalised)
RECURSIVE BCmpFrom(_, _, _)
BCmpFrom(a, b, i) ==
    IF i = 0 THEN 0
    ELSE IF a[i] < b[i] THEN -1
    ELSE IF a[i] > b[i] THEN 1
    ELSE BCmpFrom(a, b, i - 1)

BCmp(a, b) ==
    IF Len(a) < Len(b) THEN -1
    ELSE IF Len(a) > Len(b) THEN 1
    ELSE BCmpFrom(a, b, Len(a))

\* a * k for 0 <= k < Base
RECURSIVE BMulC(_, _, _)
BMulC(a, k, carry) ==
    IF a = << >> THEN (IF carry = 0 THEN << >> ELSE << carry >>)
    ELSE LET p == a[1] * k + carry
         IN  << p % Base >> \o BMulC(Tail(a), k, p \div Base)

BMulSmall(a, k) == BNorm(BMulC(a, k, 0))

RECURSIVE BMulPow10(_, _)
BMulPow10(a, j) ==
    IF j = 0 THEN a ELSE BMulPow10(BMulSmall(a, 10), j - 1)

\* a * 2^k
BShl(a, k) ==
    IF a = << >> THEN << >>
    ELSE [i \in 1..(k \div 15) |-> 0] \o BMulSmall(a, 2 ^ (k % 15))

\* floor(a / 2^k)
BShr(a, k) ==
    LET limbs == k \div 15
        bits == k % 15
        top == IF limbs >= Len(a) THEN << >>
               ELSE SubSeq(a, limbs + 1, Len(a))
        lo == 2 ^ bits
        hi == 2 ^ (15 - bits)
    IN  BNorm([i \in 1..Len(top) |->
                 (top[i] \div lo)
                 + (IF i < Len(top) THEN (top[i + 1] % lo) * hi ELSE 0)])

\* a mod 2^k is not zero
BLowBits(a, k) == BShl(BShr(a, k), k) # a

RECURSIVE IntBitLen(_)
IntBitLen(n) == IF n = 0 THEN 0 ELSE 1 + IntBitLen(n \div 2)

BBitLen(a) ==
    IF a = << >> THEN 0
    ELSE 15 * (Len(a) - 1) + IntBitLen(a[Len(a)])

(***************************************************************************)
(* float64.  A value is [t |-> "float", s |-> 0 or 1, m |-> significand,   *)
(* e |-> exponent] and stands for (-1)^s * m * 2^e, with 2^52 <= m < 2^53, *)
(* or m = 0 (then s = 0 and e = 0).  The representation is canonical, so   *)
(* two floats are equal as numbers exactly when their records are equal.   *)
(***************************************************************************)
Float(s, m, e) == [t |-> "float", s |-> s, m |-> m, e |-> e]

FZero == Float(0, << >>, 0)

\* The float nearest to (-1)^s * (M + f) * 2^E, where 0 <= f < 1 and
\* sticky says f > 0; ties go to the even significand.  A caller that
\* passes sticky passes at least 55 bits of M.
FRound(s, M, E, sticky) ==
    LET L == BBitLen(M)
    IN  IF L = 0 THEN FZero
        ELSE IF L <= 53
        THEN Float(s, BShl(M, 53 - L), E - (53 - L))
        ELSE LET d == L - 53
                 q == BShr(M, d)
                 half == BLowBits(BShr(M, d - 1), 1)
                 rest == sticky \/ BLowBits(M, d - 1)
                 odd == BLowBits(q, 1)
                 up == half /\ (rest \/ odd)
                 q1 == IF up THEN BAdd(q, << 1 >>) ELSE q
             IN  IF BBitLen(q1) = 54
                 THEN Float(s, BShr(q1, 1), E + d + 1)
                 ELSE Float(s, q1, E + d)

\* int -> float64 (Python's int-to-float conversion, numpy's astype(float))
FFromInt(n) ==
    IF n < 0 THEN FRound(1, BFromInt(-n), 0, FALSE)
    ELSE FRound(0, BFromInt(n), 0, FALSE)

FNeg(a) == IF a.m = << >> THEN a ELSE [a EXCEPT !.s = 1 - a.s]

\* -1, 0, 1 as |a| < |b|, |a| = |b|, |a| > |b|
FCmpMag(a, b) ==
    IF a.m = << >> THEN (IF b.m = << >> THEN 0 ELSE -1)
    ELSE IF b.m = << >> THEN 1
    ELSE IF a.e < b.e THEN -1
    ELSE IF a.e > b.e THEN 1
    ELSE BCmp(a.m, b.m)

\* a <= b
FLe(a, b) ==
    IF a.s = 1 /\ b.s = 0 THEN TRUE
    ELSE IF a.s = 0 /\ b.s = 1 THEN FALSE
    ELSE IF a.s = 0 THEN FCmpMag(a, b) <= 0
    ELSE FCmpMag(a, b) >= 0

\* a + b: the exact sum, rounded once
FAdd(a, b) ==
    IF a.m = << >> THEN b
    ELSE IF b.m = << >> THEN a
    ELSE LET E == IF a.e < b.e THEN a.e ELSE b.e
             Ma == BShl(a.m, a.e - E)
             Mb == BShl(b.m, b.e - E)
         IN  IF a.s = b.s THEN FRound(a.s, BAdd(Ma, Mb), E, FALSE)
             ELSE IF BCmp(Ma, Mb) >= 0
             THEN FRound(a.s, BSub(Ma, Mb), E, FALSE)
             ELSE FRound(b.s, BSub(Mb, Ma), E, FALSE)

FSub(a, b) == FAdd(a, FNeg(b))

\* One step of restoring division by d.  The state is << quotient bits
\* so far, remainder, steps done >>, with remainder < 2 * d.
DivStep(d, st) ==
    IF BCmp(st[2], d) >= 0
    THEN << BAdd(BShl(st[1], 1), << 1 >>), BShl(BSub(st[2], d), 1), st[3] + 1 >>
    ELSE << BShl(st[1], 1), BShl(st[2], 1), st[3] + 1 >>

\* n steps, halving n so that the evaluation stays shallow
RECURSIVE DivSteps(_, _, _)
DivSteps(d, st, n) ==
    IF n = 0 THEN st
    ELSE IF n = 1 THEN DivStep(d, st)
    ELSE LET h == DivSteps(d, st, n \div 2)
         IN  IF h[3] = st[3] + (n \div 2)
             THEN DivSteps(d, h, n - (n \div 2))
             ELSE h

\* a / b for b # 0: 56 quotient bits and a sticky bit, rounded once
FDiv(a, b) ==
    IF a.m = << >> THEN FZero
    ELSE LET qr == DivSteps(b.m, << << >>, a.m, 0 >>, 56)
         IN  FRound((a.s + b.s) % 2, qr[1], a.e - b.e - 55, qr[2] # << >>)

\* One step of the bit-pair square root of M * 4^29, M < 2^54.  The state
\* is << root bits so far, remainder, steps done >>; step k takes pair
\* number 55 - k of M * 4^29, most significant first.
SqrtStep(M, st) ==
    LET j == 55 - st[3]
        pair == IF j >= 29 THEN BShr(M, 2 * (j - 29)) ELSE << >>
        two == IF pair = << >> THEN 0 ELSE pair[1] % 4
        rem == BAdd(BShl(st[2], 2), BFromInt(two))
        try == BAdd(BShl(st[1], 2), << 1 >>)
    IN  IF BCmp(rem, try) >= 0
        THEN << BAdd(BShl(st[1], 1), << 1 >>), BSub(rem, try), st[3] + 1 >>
        ELSE << BShl(st[1], 1), rem, st[3] + 1 >>

RECURSIVE SqrtSteps(_, _, _)
SqrtSteps(M, st, n) ==
    IF n = 0 THEN st
    ELSE IF n = 1 THEN SqrtStep(M, st)
    ELSE LET h == SqrtSteps(M, st, n \div 2)
         IN  IF h[3] = st[3] + (n \div 2)
             THEN SqrtSteps(M, h, n - (n \div 2))
             ELSE h

\* the square root left out
FSqrtSkip(a) == a

\* sqrt(a) for a >= 0: 56 root bits and a sticky bit, rounded once
FSqrt(a) ==
    IF a.m = << >> THEN FZero
    ELSE LET odd == a.e % 2 = 1
             M == IF odd THEN BShl(a.m, 1) ELSE a.m
             E == IF odd THEN a.e - 1 ELSE a.e
             rr == SqrtSteps(M, << << >>, << >>, 0 >>, 56)
         IN  FRound(0, rr[1], (E \div 2) - 29, rr[2] # << >>)

\* The integer nearest to a * 10^j (ties to even), for a >= 0 and j >= 0:
\* a written in decimal with j digits after the point.
DecRound(a, j) ==
    IF a.m = << >> THEN 0
    ELSE LET N == BMulPow10(a.m, j)
         IN  IF a.e >= 0 THEN BToInt(BShl(N, a.e))
             ELSE LET d == -a.e
                      q == BShr(N, d)
                      half == BLowBits(BShr(N, d - 1), 1)
                      rest == BLowBits(N, d - 1)
                      odd == BLowBits(q, 1)
                  IN  BToInt(q) + (IF half /\ (rest \/ odd) THEN 1 ELSE 0)

(***************************************************************************)
(* Python values.  Each kind keeps its payload in a field of its own.      *)
(* Array(v) is np.array([v]): a 2-D integer array of shape (1, Len(v)).    *)
(***************************************************************************)
PyNone == [t |-> "None"]
PyInt(n) == [t |-> "int", i |-> n]
PyStr(w) == [t |-> "str", str |-> w]
Array(v) == [t |-> "ndarray", a |-> v]

(***************************************************************************)
(* Bounds of the model.                                                    *)
(***************************************************************************)
MaxCoord == 1
MaxTot == 2
MaxDelta == 2
MaxObjs == 3

\* Array sizes the callers pass: the script's 3 and two smaller ones.
Dims == {1, 2, 3}

Positions == {Array(v) : v \in UNION {[1..n -> 0..MaxCoord] : n \in Dims}}

\* What a caller may hand to stat_emitter as pos: nothing is checked.
PosArgs ==
    {Array(<< 1, 1, 0 >>), Array(<< 0, MaxCoord >>), PyInt(0), PyInt(MaxCoord),
     PyNone, PyStr("north")}

(***************************************************************************)
(* exp/exp00_tdoa.py                                                       *)
(***************************************************************************)
cExact == FFromInt(299792458)

\* c = 299e6
c == FFromInt(299000000)

\* numpy's broadcasting rule for shapes (1, n) and (1, m)
Broadcastable(u, v) == Len(u) = Len(v) \/ Len(u) = 1 \/ Len(v) = 1

\* x (the subtraction left out)
ArrLeft(u, v) == u

\* x + y on integer arrays of shapes (1, n) and (1, m), broadcast
ArrAdd(u, v) ==
    LET n == IF Len(u) >= Len(v) THEN Len(u) ELSE Len(v)
    IN  [i \in 1..n |-> (IF Len(u) = 1 THEN u[1] ELSE u[i])
                        + (IF Len(v) = 1 THEN v[1] ELSE v[i])]

\* x - y on integer arrays of shapes (1, n) and (1, m), broadcast
ArrSub(u, v) ==
    LET n == IF Len(u) >= Len(v) THEN Len(u) ELSE Len(v)
    IN  [i \in 1..n |-> (IF Len(u) = 1 THEN u[1] ELSE u[i])
                        - (IF Len(v) = 1 THEN v[1] ELSE v[i])]

\* d.dot(d) on the flattened array; exact in float64 below 2^53
RECURSIVE Dot(_)
Dot(d) == IF d = << >> THEN 0 ELSE d[1] * d[1] + Dot(Tail(d))

\* The script's literals (lines 16, 18, 19)
TransmitterLit == << 1, 1, 0 >>
Rec1Lit == << 50, 50, 25 >>
Rec2Lit == << 3, 100, 75 >>

\* The squared norms the programs of the model compute.  The float64
\* results below are evaluated once, as explicit tables over the arguments
\* the programs pass, and looked up afterwards.
NormDomain ==
    {Dot(ArrSub(pq[1], pq[2])) :
        pq \in {<< uv[1].a, uv[2].a >> :
                  uv \in {ab \in Positions \X Positions :
                            Broadcastable(ab[1].a, ab[2].a)}}
               \cup {<< TransmitterLit, Rec1Lit >>,
                     << TransmitterLit, Rec2Lit >>}}

\* The values of a table
Range(tbl) == UNION {{g[k] : k \in DOMAIN g} : g \in {tbl}}

\* sqrt(d.dot(d)) in float64
NormTable == [n \in NormDomain |-> FSqrt(FFromInt(n))] @@ << >>

\* np.linalg.norm(d) of a 2-D array, ord=None: sqrt of the sum of squares
norm(d) == NormTable[Dot(d)]

DelayTable == [f \in Range(NormTable) |-> FDiv(f, c)] @@ << >>

\* r / c
Delay(f) == DelayTable[f]

\* tot as a float64, for the values of tot the programs pass
TotTable == [n \in 0..(MaxTot + MaxDelta) |-> FFromInt(n)] @@ << >>

\* tot + r / c, on the float64 operands
SumTable ==
    [q \in Range(TotTable) \X Range(DelayTable) |-> FAdd(q[1], q[2])]
        @@ << >>

ValueError == [t |-> "raise", exc |-> "ValueError"]

\* def calc_range(x, y): return np.linalg.norm(x - y)
calc_range(x, y) ==
    IF Broadcastable(x.a, y.a) THEN norm(ArrSub(x.a, y.a)) ELSE ValueError

calc_toa_return_neg(tot, r) == FSub(Delay(r), FFromInt(tot.i))

\* calc_toa, line 13: return tot + r / c
calc_toa_return(tot, r) == SumTable[<< TotTable[tot.i], Delay(r) >>]

\* The script's two arrival times, by receiver
ScriptToa ==
    [lit \in {Rec1Lit, Rec2Lit} |->
        SumTable[<< TotTable[0],
                    DelayTable[NormTable[Dot(ArrSub(TransmitterLit, lit))]] >>]]

\* toa2 - toa1 for the script's arrival times
DiffTable ==
    [q \in {<< g[Rec2Lit], g[Rec1Lit] >> : g \in {ScriptToa}} |->
        FSub(q[1], q[2])] @@ << >>

\* main, line 24: toa2 - toa1
main_tdoa(a, b) == DiffTable[<< a, b >>]

(***************************************************************************)
(* sim/emitters.py                                                         *)
(***************************************************************************)
\* self.<name> = val
SetAttr(self, name, val) ==
    [self EXCEPT !.dict = [k \in DOMAIN self.dict \cup {name} |->
                             IF k = name THEN val ELSE self.dict[k]]]

Ran(self, init) == [self EXCEPT !.ran = self.ran \cup {init}]

\* The object Python allocates before it calls the class's __init__
NewObject(cls) == [cls |-> cls, dict |-> [k \in {} |-> PyNone], ran |-> {}]

emitter_init_unset(self) ==
    Ran(SetAttr(self, "pos", PyNone), "emitter.__init__")

\* emitter.__init__(self)
emitter_init(self) ==
    Ran(SetAttr(SetAttr(self, "pos", PyInt(0)), "vel", PyInt(0)),
        "emitter.__init__")

stat_emitter_init_vel(self, pos) ==
    Ran(SetAttr(SetAttr(self, "pos", pos), "vel", pos),
        "stat_emitter.__init__")

stat_emitter_init_super(self, pos) ==
    Ran(emitter_init(self), "stat_emitter.__init__")

\* stat_emitter.__init__(self, pos)
stat_emitter_init(self, pos) ==
    Ran(SetAttr(SetAttr(self, "pos", pos), "vel", PyInt(0)),
        "stat_emitter.__init__")

(***************************************************************************)
(* State.  One process runs one program: the script as __main__, or a      *)
(* caller of the module's functions and classes.                           *)
(***************************************************************************)
VARIABLES
    prog,          \* the program the process runs
    pc,            \* control point, "<function>:<line>"
    stack,         \* call sites awaiting a return, innermost first
    exc,           \* exception in flight, or PyNone
    exit,          \* process exit status, PyNone while running
    ret,           \* what main returned, PyNone before
    transmitter, rec1, rec2, toa1, toa2, tdoa,   \* locals of main
    tot, transmit_pos, receive_pos, r,           \* locals of calc_toa
    x, y,                                        \* locals of calc_range
    A, B, T, D,                                  \* a caller's arguments
    rAB, rBA, rAA, t0, t1,                       \* a caller's results
    objs,          \* the emitter objects constructed, in order
    made           \* per constructor call: class, argument, object index

procVars == << prog, pc, stack, exc, exit, ret >>
mainVars == << transmitter, rec1, rec2, toa1, toa2, tdoa >>
toaFrame == << tot, transmit_pos, receive_pos, r >>
rangeFrame == << x, y >>
argVars == << A, B, T, D >>
resVars == << rAB, rBA, rAA, t0, t1 >>
simVars == << objs, made >>
vars ==
    << prog, pc, stack, exc, exit, ret, transmitter, rec1, rec2, toa1, toa2,
       tdoa, tot, transmit_pos, receive_pos, r, x, y, A, B, T, D, rAB, rBA,
       rAA, t0, t1, objs, made >>

Blank ==
    /\ stack = << >>
    /\ exc = PyNone /\ exit = PyNone /\ ret = PyNone
    /\ transmitter = PyNone /\ rec1 = PyNone /\ rec2 = PyNone
    /\ toa1 = PyNone /\ toa2 = PyNone /\ tdoa = PyNone
    /\ tot = PyNone /\ transmit_pos = PyNone /\ receive_pos = PyNone
    /\ r = PyNone /\ x = PyNone /\ y = PyNone
    /\ T = PyNone /\ D = PyNone
    /\ rAB = PyNone /\ rBA = PyNone /\ rAA = PyNone /\ t0 = PyNone /\ t1 = PyNone
    /\ objs = << >> /\ made = << >>

\* python exp00_tdoa.py
InitScript ==
    /\ prog = "script" /\ pc = "module:29"
    /\ A = PyNone /\ B = PyNone
    /\ Blank

\* a caller of calc_range and calc_toa, with two positions
InitCaller ==
    /\ prog \in {"range_caller", "toa_caller"}
    /\ pc = prog \o ":1"
    /\ A \in Positions /\ B \in Positions
    /\ Blank

\* a caller of the emitter classes
InitSim ==
    /\ prog = "sim_caller" /\ pc = "sim_caller"
    /\ A = PyNone /\ B = PyNone
    /\ Blank

Init == InitScript \/ InitCaller \/ InitSim

(***************************************************************************)
(* Control flow.  No function of the repository has a try statement, so    *)
(* no call site handles an exception.                                      *)
(***************************************************************************)
HandlesAll(site) == TRUE

Handles(site) == FALSE

\* Where control continues once the call at `site` has returned
After(site) ==
    CASE site = "module:29" -> "module:end"
      [] site = "main:21" -> "main:22"
      [] site = "main:22" -> "main:24"
      [] site = "calc_toa:12" -> "calc_toa:13"
      [] site = "range_caller:1" -> "range_caller:2"
      [] site = "range_caller:2" -> "range_caller:3"
      [] site = "range_caller:3" -> "module:end"
      [] site = "toa_caller:1" -> "toa_caller:2"
      [] site = "toa_caller:2" -> "module:end"

\* A call of calc_toa(a0, a1, a2) from `site`
CallCalcToa(site, a0, a1, a2) ==
    /\ stack' = << site >> \o stack
    /\ tot' = a0 /\ transmit_pos' = a1 /\ receive_pos' = a2 /\ r' = PyNone
    /\ pc' = "calc_toa:12"

\* A call of calc_range(a0, a1) from `site`
CallCalcRange(site, a0, a1) ==
    /\ stack' = << site >> \o stack
    /\ x' = a0 /\ y' = a1
    /\ pc' = "calc_range:6"

MainReturnTdoa == tdoa

\* main, line 26: return 0
MainReturn == PyInt(0)

\* if __name__ == "__main__": main()
ModuleL29 ==
    /\ pc = "module:29"
    /\ stack' = << "module:29" >> \o stack
    /\ pc' = "main:16"
    /\ UNCHANGED << prog, exc, exit, ret, mainVars, toaFrame, rangeFrame,
                    argVars, resVars, simVars >>

\* transmitter = np.array([[1, 1, 0]])
MainL16 ==
    /\ pc = "main:16"
    /\ transmitter' = Array(TransmitterLit)
    /\ pc' = "main:18"
    /\ UNCHANGED << prog, stack, exc, exit, ret, rec1, rec2, toa1, toa2, tdoa,
                    toaFrame, rangeFrame, argVars, resVars, simVars >>

\* rec1 = np.array([[50, 50, 25]])
MainL18 ==
    /\ pc = "main:18"
    /\ rec1' = Array(Rec1Lit)
    /\ pc' = "main:19"
    /\ UNCHANGED << prog, stack, exc, exit, ret, transmitter, rec2, toa1, toa2,
                    tdoa, toaFrame, rangeFrame, argVars, resVars, simVars >>

\* rec2 = np.array([[3, 100, 75]])
MainL19 ==
    /\ pc = "main:19"
    /\ rec2' = Array(Rec2Lit)
    /\ pc' = "main:21"
    /\ UNCHANGED << prog, stack, exc, exit, ret, transmitter, rec1, toa1, toa2,
                    tdoa, toaFrame, rangeFrame, argVars, resVars, simVars >>

\* toa1 = calc_toa(0, transmitter, rec1): the call
MainL21 ==
    /\ pc = "main:21"
    /\ CallCalcToa("main:21", PyInt(0), transmitter, rec1)
    /\ UNCHANGED << prog, exc, exit, ret, mainVars, rangeFrame, argVars,
                    resVars, simVars >>

\* toa2 = calc_toa(0, transmitter, rec2): the call
MainL22 ==
    /\ pc = "main:22"
    /\ CallCalcToa("main:22", PyInt(0), transmitter, rec2)
    /\ UNCHANGED << prog, exc, exit, ret, mainVars, rangeFrame, argVars,
                    resVars, simVars >>

\* tdoa = toa2 - toa1
MainL24 ==
    /\ pc = "main:24"
    /\ tdoa' = main_tdoa(toa2, toa1)
    /\ pc' = "main:26"
    /\ UNCHANGED << prog, stack, exc, exit, ret, transmitter, rec1, rec2, toa1,
                    toa2, toaFrame, rangeFrame, argVars, resVars, simVars >>

\* return 0: main's frame and its locals are gone, the caller at line 29
\* drops the value
MainL26 ==
    /\ pc = "main:26"
    /\ ret' = MainReturn
    /\ stack' = Tail(stack)
    /\ pc' = After(Head(stack))
    /\ transmitter' = PyNone /\ rec1' = PyNone /\ rec2' = PyNone
    /\ toa1' = PyNone /\ toa2' = PyNone /\ tdoa' = PyNone
    /\ UNCHANGED << prog, exc, exit, toaFrame, rangeFrame, argVars, resVars,
                    simVars >>

\* r = calc_range(transmit_pos, receive_pos): the call
CalcToaL12 ==
    /\ pc = "calc_toa:12"
    /\ CallCalcRange("calc_toa:12", transmit_pos, receive_pos)
    /\ UNCHANGED << prog, exc, exit, ret, mainVars, toaFrame, argVars,
                    resVars, simVars >>

\* return np.linalg.norm(x - y): the value goes to the caller, or the
\* subtraction raises and the frame is left
CalcRangeL6 ==
    /\ pc = "calc_range:6"
    /\ LET v == calc_range(x, y)
           site == Head(stack)
       IN  IF v.t = "raise"
           THEN /\ exc' = v
                /\ pc' = "unwind"
                /\ UNCHANGED << stack, r, resVars >>
           ELSE /\ stack' = Tail(stack)
                /\ pc' = After(site)
                /\ r' = IF site = "calc_toa:12" THEN v ELSE r
                /\ rAB' = IF site = "range_caller:1" THEN v ELSE rAB
                /\ rBA' = IF site = "range_caller:2" THEN v ELSE rBA
                /\ rAA' = IF site = "range_caller:3" THEN v ELSE rAA
                /\ UNCHANGED << exc, t0, t1 >>
    /\ x' = PyNone /\ y' = PyNone
    /\ UNCHANGED << prog, exit, ret, mainVars, tot, transmit_pos,
                    receive_pos, argVars, simVars >>

\* return tot + r / c
CalcToaL13 ==
    /\ pc = "calc_toa:13"
    /\ LET v == calc_toa_return(tot, r)
           site == Head(stack)
       IN  /\ stack' = Tail(stack)
           /\ pc' = After(site)
           /\ toa1' = IF site = "main:21" THEN v ELSE toa1
           /\ toa2' = IF site = "main:22" THEN v ELSE toa2
           /\ t0' = IF site = "toa_caller:1" THEN v ELSE t0
           /\ t1' = IF site = "toa_caller:2" THEN v ELSE t1
    /\ tot' = PyNone /\ transmit_pos' = PyNone /\ receive_pos' = PyNone
    /\ r' = PyNone
    /\ UNCHANGED << prog, exc, exit, ret, transmitter, rec1, rec2, tdoa,
                    rangeFrame, argVars, rAB, rBA, rAA, simVars >>

\* An exception in flight reaches the innermost call site.  Unhandled, it
\* leaves that caller's frame too; with no frame left the interpreter
\* prints the traceback and the process ends with status 1.
Unwind ==
    /\ pc = "unwind"
    /\ IF stack = << >>
       THEN /\ exit' = PyInt(1)
            /\ pc' = "exit"
            /\ UNCHANGED << stack, exc, mainVars, toaFrame >>
       ELSE LET site == Head(stack)
            IN  /\ stack' = Tail(stack)
                /\ IF Handles(site)
                   THEN /\ exc' = PyNone
                        /\ pc' = After(site)
                        /\ UNCHANGED << mainVars, toaFrame >>
                   ELSE /\ pc' = "unwind"
                        /\ exc' = exc
                        /\ IF site = "calc_toa:12"
                           THEN /\ tot' = PyNone /\ transmit_pos' = PyNone
                                /\ receive_pos' = PyNone /\ r' = PyNone
                                /\ UNCHANGED mainVars
                           ELSE IF site \in {"main:21", "main:22"}
                           THEN /\ transmitter' = PyNone /\ rec1' = PyNone
                                /\ rec2' = PyNone /\ toa1' = PyNone
                                /\ toa2' = PyNone /\ tdoa' = PyNone
                                /\ UNCHANGED toaFrame
                           ELSE UNCHANGED << mainVars, toaFrame >>
                /\ exit' = exit
    /\ UNCHANGED << prog, ret, rangeFrame, argVars, resVars, simVars >>

\* The module's last statement has run: the process ends with status 0
ModuleEnd ==
    /\ pc = "module:end"
    /\ exit' = PyInt(0)
    /\ pc' = "exit"
    /\ UNCHANGED << prog, stack, exc, ret, mainVars, toaFrame, rangeFrame,
                    argVars, resVars, simVars >>

(***************************************************************************)
(* Callers of the module's functions.                                      *)
(***************************************************************************)
\* rAB = calc_range(A, B)
RangeCaller1 ==
    /\ pc = "range_caller:1"
    /\ CallCalcRange("range_caller:1", A, B)
    /\ UNCHANGED << prog, exc, exit, ret, mainVars, toaFrame, argVars,
                    resVars, simVars >>

\* rBA = calc_range(B, A)
RangeCaller2 ==
    /\ pc = "range_caller:2"
    /\ CallCalcRange("range_caller:2", B, A)
    /\ UNCHANGED << prog, exc, exit, ret, mainVars, toaFrame, argVars,
                    resVars, simVars >>

\* rAA = calc_range(A, A)
RangeCaller3 ==
    /\ pc = "range_caller:3"
    /\ CallCalcRange("range_caller:3", A, A)
    /\ UNCHANGED << prog, exc, exit, ret, mainVars, toaFrame, argVars,
                    resVars, simVars >>

\* t0 = calc_toa(T, A, B)
ToaCaller1 ==
    /\ pc = "toa_caller:1"
    /\ \E n \in 0..MaxTot :
          /\ T' = PyInt(n)
          /\ CallCalcToa("toa_caller:1", PyInt(n), A, B)
    /\ UNCHANGED << prog, exc, exit, ret, mainVars, rangeFrame, A, B, D,
                    resVars, simVars >>

\* t1 = calc_toa(T + D, A, B)
ToaCaller2 ==
    /\ pc = "toa_caller:2"
    /\ \E d \in 0..MaxDelta :
          /\ D' = PyInt(d)
          /\ CallCalcToa("toa_caller:2", PyInt(T.i + d), A, B)
    /\ UNCHANGED << prog, exc, exit, ret, mainVars, rangeFrame, A, B, T,
                    resVars, simVars >>

(***************************************************************************)
(* A caller of the emitter classes.                                        *)
(***************************************************************************)
\* emitter()
NewEmitter ==
    /\ pc = "sim_caller"
    /\ Len(objs) < MaxObjs
    /\ objs' = Append(objs, emitter_init(NewObject("emitter")))
    /\ made' = Append(made, [cls |-> "emitter", arg |-> PyNone,
                             obj |-> Len(objs) + 1])
    /\ UNCHANGED << procVars, mainVars, toaFrame, rangeFrame, argVars,
                    resVars >>

\* stat_emitter(p)
NewStatEmitterWith(p) ==
    /\ pc = "sim_caller"
    /\ Len(objs) < MaxObjs
    /\ objs' = Append(objs, stat_emitter_init(NewObject("stat_emitter"), p))
    /\ made' = Append(made, [cls |-> "stat_emitter", arg |-> p,
                             obj |-> Len(objs) + 1])
    /\ UNCHANGED << procVars, mainVars, toaFrame, rangeFrame, argVars,
                    resVars >>

NewStatEmitter == \E p \in PosArgs : NewStatEmitterWith(p)

Next ==
    \/ ModuleL29 \/ MainL16 \/ MainL18 \/ MainL19 \/ MainL21 \/ MainL22
    \/ MainL24 \/ MainL26
    \/ CalcToaL12 \/ CalcRangeL6 \/ CalcToaL13 \/ Unwind \/ ModuleEnd
    \/ RangeCaller1 \/ RangeCaller2 \/ RangeCaller3
    \/ ToaCaller1 \/ ToaCaller2
    \/ NewEmitter \/ NewStatEmitter

Spec == Init /\ [][Next]_vars

\* A running Python process keeps executing its next statement.
FairSpec == Spec /\ WF_vars(Next)

(***************************************************************************)
(* Properties.                                                             *)
(***************************************************************************)
InScript == prog = "script"
InCaller == prog \in {"range_caller", "toa_caller"}
InSim == prog = "sim_caller"

\* main is at its return statement, all of its locals assigned
AtMainReturn == InScript /\ pc = "main:26"

\* calc_toa, called from main at `site`, has computed r
RangeKnown(site) ==
    InScript /\ pc = "calc_toa:13" /\ Head(stack) = site

\* C1, as stated: in main's scenario tdoa = toa2 - toa1 rounds to
\* 1.5906e-7 at five significant digits (tdoa * 10^11 rounds to 15906).
C1_Original == AtMainReturn => DecRound(tdoa, 11) = 15906

\* C1, amended: in main's scenario tdoa is the float64 difference
\* toa2 - toa1 and rounds to 1.6906e-7 at five significant digits.
C1_Tdoa ==
    AtMainReturn => tdoa = FSub(toa2, toa1) /\ DecRound(tdoa, 11) = 16906

C1_Witness == AtMainReturn /\ tdoa # PyNone /\ toa1 # toa2

\* C2, as stated: the squared ranges are 5427 and 15430, the ranges round
\* to 73.666 and 124.219, toa1 to 2.4638e-7 and toa2 to 4.1544e-7.
C2_Original ==
    /\ RangeKnown("main:21") =>
          /\ Dot(ArrSub(transmit_pos.a, receive_pos.a)) = 5427
          /\ DecRound(r, 3) = 73666
    /\ RangeKnown("main:22") =>
          /\ Dot(ArrSub(transmit_pos.a, receive_pos.a)) = 15430
          /\ DecRound(r, 3) = 124219
    /\ AtMainReturn =>
          DecRound(toa1, 11) = 24638 /\ DecRound(toa2, 11) = 41544

\* C2, amended: the squared ranges are 5427 and 15430, the ranges
\* sqrt(5427) and sqrt(15430) round to 73.668 and 124.218 (three decimals),
\* toa1 rounds to 2.4638e-7 and toa2 to 4.1544e-7 (five significant
\* digits), with tot = 0.
C2_Ranges ==
    /\ RangeKnown("main:21") =>
          /\ tot = PyInt(0)
          /\ Dot(ArrSub(transmit_pos.a, receive_pos.a)) = 5427
          /\ r = FSqrt(FFromInt(5427))
          /\ DecRound(r, 3) = 73668
    /\ RangeKnown("main:22") =>
          /\ tot = PyInt(0)
          /\ Dot(ArrSub(transmit_pos.a, receive_pos.a)) = 15430
          /\ r = FSqrt(FFromInt(15430))
          /\ DecRound(r, 3) = 124218
    /\ AtMainReturn =>
          DecRound(toa1, 11) = 24638 /\ DecRound(toa2, 11) = 41544

C2_Witness ==
    AtMainReturn /\ toa1 # PyNone /\ toa2 # PyNone
    /\ transmitter = Array(TransmitterLit)

\* the sum of an array's coordinates
RECURSIVE Sum(_)
Sum(d) == IF d = << >> THEN 0 ELSE d[1] + Sum(Tail(d))

\* C3: calc_range is symmetric: for positions A and B of the same shape,
\* calc_range(A, B) = calc_range(B, A).
C3_Symmetric ==
    prog = "range_caller" /\ Len(A.a) = Len(B.a) /\ pc = "range_caller:3"
        => rAB # PyNone /\ rAB = rBA

C3_Witness ==
    /\ prog = "range_caller" /\ pc = "range_caller:3"
    /\ Len(A.a) = 3 /\ Len(B.a) = 3 /\ Sum(A.a) # Sum(B.a)
    /\ rAB # FZero /\ rAB = rBA

\* C4: calc_range(P, P) = 0 for every position P.
C4_ZeroOnSelf ==
    prog = "range_caller" /\ pc \in {"module:end", "exit"} /\ exc = PyNone
        => rAA = FZero

C4_Witness ==
    /\ prog = "range_caller" /\ pc = "module:end"
    /\ Len(A.a) = 3 /\ Sum(A.a) > 0 /\ rAA = FZero

\* both calls of calc_toa have returned
ToaDone == prog = "toa_caller" /\ pc \in {"module:end", "exit"} /\ exc = PyNone

\* C5, as stated: calc_toa(tot + D, tx, rx) = calc_toa(tot, tx, rx) + D
\* exactly, for every tot and D.
C5_Original == ToaDone => t1 = FAdd(t0, FFromInt(D.i))

\* C5, amended: calc_toa is non-decreasing in tot: for D >= 0,
\* calc_toa(tot, tx, rx) <= calc_toa(tot + D, tx, rx); the increase is D
\* up to float64 rounding only, and exactly D when tot = 0 or D = 0.
C5_Monotone ==
    ToaDone =>
        /\ FLe(t0, t1)
        /\ (T.i = 0 \/ D.i = 0) => t1 = FAdd(t0, FFromInt(D.i))

C5_Witness ==
    ToaDone /\ T.i > 0 /\ D.i > 0 /\ t0 # t1 /\ FLe(t0, t1)
    /\ t1 # FAdd(t0, FFromInt(D.i))

\* C6: a stat_emitter has vel = 0 from its construction on, in every state.
C6_VelZero ==
    \A i \in 1..Len(objs) :
        objs[i].cls = "stat_emitter" =>
            /\ "vel" \in DOMAIN objs[i].dict
            /\ objs[i].dict["vel"] = PyInt(0)

C6_Witness ==
    /\ Len(objs) >= 2
    /\ objs[1].cls = "stat_emitter"
    /\ objs[1].dict["pos"] = Array(<< 1, 1, 0 >>)
    /\ objs[1].dict["vel"] = PyInt(0)

\* C7: emitter(), called with no arguments, yields pos = 0 and vel = 0.
C7_EmitterZero ==
    \A i \in 1..Len(made) :
        made[i].cls = "emitter" =>
            /\ made[i].arg = PyNone
            /\ DOMAIN objs[made[i].obj].dict = {"pos", "vel"}
            /\ objs[made[i].obj].dict["pos"] = PyInt(0)
            /\ objs[made[i].obj].dict["vel"] = PyInt(0)

C7_Witness ==
    \E i \in 1..Len(objs) :
        objs[i].cls = "emitter" /\ objs[i].dict["pos"] = PyInt(0)

\* The one float64 main's tdoa can be: 0x1.6b0e8512d5644p-23
TdoaValue == Float(0, << 22084, 8794, 17313, 181 >>, -75)

\* main's steps come in the order positions, toa1, toa2, tdoa, return
ScriptOrder ==
    /\ toa1 # PyNone =>
          transmitter # PyNone /\ rec1 # PyNone /\ rec2 # PyNone
    /\ toa2 # PyNone => toa1 # PyNone
    /\ tdoa # PyNone => toa2 # PyNone
    /\ ret # PyNone => pc \in {"module:end", "exit"}

\* C8: main terminates and returns 0, after defining the positions and
\* computing toa1, toa2 and their difference in that order; the run is
\* deterministic and tdoa is not part of what is returned.
C8_MainReturnsZero ==
    /\ (InScript ~> (pc = "exit" /\ ret = PyInt(0) /\ exit = PyInt(0)))
    /\ [](InScript =>
            /\ ScriptOrder
            /\ exc = PyNone
            /\ ret \in {PyNone, PyInt(0)}
            /\ pc = "main:26" => tdoa = TdoaValue
            /\ pc = "exit" => ret = PyInt(0) /\ tdoa = PyNone /\ stack = << >>)

C8_Witness ==
    InScript /\ pc = "exit" /\ ret = PyInt(0) /\ exit = PyInt(0)

\* the caller's positions cannot be subtracted
Mismatch == InCaller /\ ~Broadcastable(A.a, B.a)

NoResult ==
    /\ r = PyNone /\ rAB = PyNone /\ rBA = PyNone /\ rAA = PyNone
    /\ t0 = PyNone /\ t1 = PyNone

\* C9, as stated: with two positions of differing size the outcome is an
\* error, not a range value, and the process ends on it.
C9_Original ==
    InCaller /\ Len(A.a) # Len(B.a) =>
        /\ NoResult
        /\ pc = "exit" => exit = PyInt(1) /\ exc = ValueError

\* C9, amended: with two positions whose sizes differ and are both other
\* than 1, the subtraction raises ValueError, no range or time of arrival
\* is produced, nothing catches the error and the process ends with it;
\* a position of size 1 is broadcast against the other and a range is
\* returned.
C9_ShapeError ==
    /\ Mismatch =>
          /\ NoResult
          /\ pc \in {prog \o ":1", "calc_toa:12", "calc_range:6", "unwind",
                     "exit"}
          /\ pc = "unwind" => exc = ValueError
          /\ pc = "exit" =>
                exit = PyInt(1) /\ exc = ValueError /\ stack = << >>
    /\ InCaller /\ ~Mismatch /\ pc = "exit" =>
          /\ exit = PyInt(0) /\ exc = PyNone
          /\ prog = "range_caller" => rAB.t = "float"
          /\ prog = "toa_caller" => t0.t = "float"

C9_Witness ==
    /\ Mismatch /\ prog = "toa_caller"
    /\ pc = "exit" /\ exit = PyInt(1) /\ exc = ValueError

\* C10: stat_emitter(p) succeeds for every value p; the object's pos is p,
\* pos and vel are both set, and emitter.__init__ has not run on it.
C10_StatEmitter ==
    /\ InSim => exc = PyNone /\ Len(objs) = Len(made)
    /\ InSim /\ Len(objs) < MaxObjs =>
          \A p \in PosArgs : ENABLED NewStatEmitterWith(p)
    /\ \A i \in 1..Len(made) :
          made[i].cls = "stat_emitter" =>
              /\ objs[made[i].obj].cls = "stat_emitter"
              /\ DOMAIN objs[made[i].obj].dict = {"pos", "vel"}
              /\ objs[made[i].obj].dict["pos"] = made[i].arg
              /\ objs[made[i].obj].ran = {"stat_emitter.__init__"}

C10_Witness ==
    \E i \in 1..Len(made) :
        /\ made[i].cls = "stat_emitter"
        /\ made[i].arg = PyStr("north")
        /\ objs[made[i].obj].dict["pos"] = PyStr("north")

=============================================================================
